---- MODULE Spec2Model ----
(***************************************************************************)
(* A model of pheng (src/src/main.rs): a 2D rigid-body sandbox.  Bodies    *)
(* are discs integrated by semi-implicit Euler; static geometry is circles *)
(* and infinite lines; a collision reflects the body's velocity about the  *)
(* contact normal.                                                         *)
(*                                                                         *)
(* Numbers.  The program computes in f32.  The model computes in exact     *)
(* real arithmetic: a number is a + b*sqrt(d) with a, b, d rational (the   *)
(* only irrational the program ever produces is the one square root taken  *)
(* by Vec2::length inside a narrow-phase test), or NaN.  Rounding is not   *)
(* modelled; NaN is, because normalize() of the zero vector produces it.   *)
(***************************************************************************)
EXTENDS Integers, Sequences, FiniteSets, TLC

(***************************************************************************)
(* Rationals: <<n, d>> with d > 0 and gcd(|n|, d) = 1.                     *)
(***************************************************************************)
RECURSIVE GCD(_, _)
GCD(m, n) ==
  IF n = 0 THEN m ELSE GCD(n, m % n)

IAbs(n) ==
  IF n < 0 THEN -n ELSE n

ISign(n) ==
  IF n > 0 THEN 1 ELSE IF n < 0 THEN -1 ELSE 0

Q(n, d) ==
  LET s == IF d < 0 THEN -1 ELSE 1
      g == GCD(IAbs(n), IAbs(d))
  IN  << (s * n) \div g, (s * d) \div g >>

QInt(n) ==
  << n, 1 >>

QAdd(p, q) ==
  LET g == GCD(p[2], q[2])
  IN  Q(p[1] * (q[2] \div g) + q[1] * (p[2] \div g), (p[2] \div g) * q[2])

QNeg(p) ==
  << -p[1], p[2] >>

QSub(p, q) ==
  QAdd(p, QNeg(q))

QMul(p, q) ==
  LET g1 == GCD(IAbs(p[1]), q[2])
      g2 == GCD(IAbs(q[1]), p[2])
  IN  IF p[1] = 0 \/ q[1] = 0 THEN << 0, 1 >>
      ELSE << (p[1] \div g1) * (q[1] \div g2), (p[2] \div g2) * (q[2] \div g1) >>

QInv(p) ==
  Q(p[2], p[1])

QSign(p) ==
  ISign(p[1])

\* Floor of the square root of a natural number, by bisection.
RECURSIVE ISqrtIn(_, _, _)
ISqrtIn(n, lo, hi) ==
  IF lo >= hi THEN lo
  ELSE LET mid == (lo + hi + 1) \div 2
       IN  IF mid <= n \div mid THEN ISqrtIn(n, mid, hi) ELSE ISqrtIn(n, lo, mid - 1)

ISqrt(n) ==
  ISqrtIn(n, 0, n)

IsSquare(n) ==
  n >= 0 /\ \E s \in { ISqrt(n) } : s * s = n

\* A reduced rational is the square of a rational iff both parts are squares.
QIsSquare(p) ==
  IsSquare(p[1]) /\ IsSquare(p[2])

QSqrt(p) ==
  << ISqrt(p[1]), ISqrt(p[2]) >>

(***************************************************************************)
(* f32 values: NaN, or a + b*sqrt(d).  Canonical form: a rational value    *)
(* has b = 0 and d = 0; otherwise d > 0 is not the square of a rational    *)
(* (Sqrt, the only source of a radicand, folds the square root of a square *)
(* into the rational part).                                                *)
(***************************************************************************)
NaN ==
  [nan |-> TRUE, a |-> << 0, 1 >>, b |-> << 0, 1 >>, d |-> << 0, 1 >>]

Mk(a, b, d) ==
  IF b[1] = 0 \/ d[1] = 0
    THEN [nan |-> FALSE, a |-> a, b |-> << 0, 1 >>, d |-> << 0, 1 >>]
  ELSE [nan |-> FALSE, a |-> a, b |-> b, d |-> d]

R(n, d) ==
  Mk(Q(n, d), << 0, 1 >>, << 0, 1 >>)

I(n) ==
  R(n, 1)

IsRat(x) ==
  ~x.nan /\ x.b[1] = 0

\* The radicand two operands share.  Two different radicands never meet: a
\* narrow-phase test takes one square root, and only its rational results
\* are stored in a body.  TLC stops with an error if they ever do.
Rad(x, y) ==
  CASE x.b[1] = 0 -> y.d
    [] y.b[1] = 0 -> x.d
    [] x.d = y.d -> x.d

Add(x, y) ==
  IF x.nan \/ y.nan THEN NaN
  ELSE Mk(QAdd(x.a, y.a), QAdd(x.b, y.b), Rad(x, y))

Neg(x) ==
  IF x.nan THEN NaN ELSE Mk(QNeg(x.a), QNeg(x.b), x.d)

Sub(x, y) ==
  Add(x, Neg(y))

Mul(x, y) ==
  IF x.nan \/ y.nan THEN NaN
  ELSE LET d == Rad(x, y)
       IN  Mk(QAdd(QMul(x.a, y.a), QMul(QMul(x.b, y.b), d)),
              QAdd(QMul(x.a, y.b), QMul(x.b, y.a)), d)

\* -1, 0 or 1: the sign of a non-NaN value.
Sign(x) ==
  LET sa == QSign(x.a)
      sb == QSign(x.b)
  IN  IF sb = 0 THEN sa
      ELSE IF sa = 0 \/ sa = sb THEN sb
      ELSE LET c == QSign(QSub(QMul(x.a, x.a), QMul(QMul(x.b, x.b), x.d)))
           IN  IF c > 0 THEN sa ELSE sb

\* 1/x.  IEEE gives an infinity for 1/0; the program's only division by
\* zero is the reciprocal of a zero length in normalize(), whose products
\* 0 * inf are NaN, so the model's 1/0 is NaN.
Recip(x) ==
  IF x.nan \/ Sign(x) = 0 THEN NaN
  ELSE IF x.b[1] = 0 THEN Mk(QInv(x.a), << 0, 1 >>, << 0, 1 >>)
  ELSE LET Conj(k) == Mk(QMul(x.a, k), QNeg(QMul(x.b, k)), x.d)
       IN  Conj(QInv(QSub(QMul(x.a, x.a), QMul(QMul(x.b, x.b), x.d))))

Div(x, y) ==
  Mul(x, Recip(y))

\* IEEE comparisons: false when an operand is NaN.
Gt(x, y) ==
  ~x.nan /\ ~y.nan /\ Sign(Sub(x, y)) = 1

Lt(x, y) ==
  Gt(y, x)

Le(x, y) ==
  ~x.nan /\ ~y.nan /\ Sign(Sub(x, y)) <= 0

\* f32::sqrt of a non-negative rational (the model never takes another).
Sqrt(x) ==
  CASE x.nan -> NaN
    [] IsRat(x) /\ x.a[1] >= 0 ->
         IF QIsSquare(x.a) THEN Mk(QSqrt(x.a), << 0, 1 >>, << 0, 1 >>)
         ELSE Mk(<< 0, 1 >>, << 1, 1 >>, x.a)

\* f32::signum: 1.0 for positive values and +0.0, -1.0 for negative values
\* and -0.0, NaN for NaN.  The model has one zero, taken as +0.0.
Signum(x) ==
  IF x.nan THEN NaN ELSE IF Sign(x) < 0 THEN I(-1) ELSE I(1)

(***************************************************************************)
(* glam::Vec2                                                              *)
(***************************************************************************)
Vec2(x, y) ==
  [x |-> x, y |-> y]

VecZero ==
  Vec2(I(0), I(0))

VAdd(u, v) ==
  Vec2(Add(u.x, v.x), Add(u.y, v.y))

VSub(u, v) ==
  Vec2(Sub(u.x, v.x), Sub(u.y, v.y))

\* f32 * Vec2 and Vec2 * f32
VScale(k, v) ==
  Vec2(Mul(k, v.x), Mul(k, v.y))

\* Vec2 / f32
VDiv(v, k) ==
  Vec2(Div(v.x, k), Div(v.y, k))

Dot(u, v) ==
  Add(Mul(u.x, v.x), Mul(u.y, v.y))

\* Vec2::length: sqrt(dot(self, self))
Length(v) ==
  Sqrt(Dot(v, v))

\* Vec2::normalize: self * (1 / length).  For the zero vector the
\* reciprocal is infinite and both products 0 * inf are NaN.
Normalize(v) ==
  VScale(Recip(Length(v)), v)

(***************************************************************************)
(* Shapes and collision results                                            *)
(***************************************************************************)
Circle(pos, r) ==
  [pos |-> pos, r |-> r]

Line(a, b, c) ==
  [a |-> a, b |-> b, c |-> c]

\* Geometry::Finite(FiniteShape::Circle(c))
GeomCircle(c) ==
  [kind |-> "Circle", circle |-> c]

\* Geometry::Infinite(InfiniteShape::Line(l))
GeomLine(l) ==
  [kind |-> "Line", line |-> l]

NoCollision ==
  [tag |-> "NoCollision"]

FullOverlap ==
  [tag |-> "FullOverlap"]

Penetration(pos, normal, depth) ==
  [tag |-> "Penetration", pos |-> pos, normal |-> normal, depth |-> depth]

(***************************************************************************)
(* Narrow-phase tests                                                      *)
(***************************************************************************)
\* circle_circle_collision with the obstacle's radius mistaken for the
\* body's in the second test.
circle_circle_wrong_radius(c1, c2) ==
  LET diff == VSub(c1.pos, c2.pos)
      dist == Length(diff)
  IN  IF Gt(dist, Add(c1.r, c2.r)) THEN NoCollision
      ELSE IF Gt(dist, c1.r)
        THEN Penetration(VSub(c1.pos, VScale(c1.r, Normalize(diff))), Normalize(diff),
                         Sub(Add(c1.r, c2.r), dist))
      ELSE FullOverlap

\* circle_circle_collision with touching circles classified as apart.
circle_circle_tangent_apart(c1, c2) ==
  LET diff == VSub(c1.pos, c2.pos)
      dist == Length(diff)
  IN  IF ~Lt(dist, Add(c1.r, c2.r)) THEN NoCollision
      ELSE IF Gt(dist, c2.r)
        THEN Penetration(VSub(c1.pos, VScale(c1.r, Normalize(diff))), Normalize(diff),
                         Sub(Add(c1.r, c2.r), dist))
      ELSE FullOverlap

\* Each let of the source is a parameter here, bound once to its value.
circle_circle_collision(c1, c2) ==
  LET Hit(dist, normal) ==
        Penetration(VSub(c1.pos, VScale(c1.r, normal)), normal,
                    Sub(Add(c1.r, c2.r), dist))
      Test(diff, dist) ==
        IF Gt(dist, Add(c1.r, c2.r)) THEN NoCollision
        ELSE IF Gt(dist, c2.r) THEN Hit(dist, Normalize(diff))
        ELSE FullOverlap
      At(diff) == Test(diff, Length(diff))
  IN  At(VSub(c1.pos, c2.pos))

\* circle_line_collision with the plain depth r - dist.
circle_line_unsigned_depth(c, l) ==
  LET t == Div(Add(Add(Mul(l.a, c.pos.x), Mul(l.b, c.pos.y)), l.c),
               Add(Mul(l.a, l.a), Mul(l.b, l.b)))
      diff == Vec2(Mul(l.a, t), Mul(l.b, t))
      dist == Length(diff)
  IN  IF Gt(dist, c.r)
        THEN IF Gt(t, I(0)) THEN NoCollision ELSE FullOverlap
      ELSE Penetration(VSub(c.pos, VScale(c.r, Normalize(diff))), Normalize(diff),
                       Sub(c.r, dist))

\* Each let of the source is a parameter here, bound once to its value.
circle_line_collision(c, l) ==
  LET Hit(t, dist, normal) ==
        Penetration(VSub(c.pos, VScale(c.r, normal)), normal,
                    Sub(c.r, Mul(dist, Signum(t))))
      Test(t, diff, dist) ==
        IF Gt(dist, c.r)
          THEN IF Gt(t, I(0)) THEN NoCollision ELSE FullOverlap
        ELSE Hit(t, dist, Normalize(diff))
      At(t, diff) == Test(t, diff, Length(diff))
      With(t) == At(t, Vec2(Mul(l.a, t), Mul(l.b, t)))
  IN  With(Div(Add(Add(Mul(l.a, c.pos.x), Mul(l.b, c.pos.y)), l.c),
               Add(Mul(l.a, l.a), Mul(l.b, l.b))))

(***************************************************************************)
(* Body                                                                    *)
(***************************************************************************)
BodyNew(mass, inertia, shape, pos, angle) ==
  [mass |-> mass, inertia |-> inertia, shape |-> shape,
   pos |-> pos, vel |-> VecZero, force |-> VecZero,
   angle |-> angle, omega |-> I(0), torque |-> I(0)]

\* Body::step as explicit Euler: the position moves by the old velocity.
BodyStepExplicit(self, dt) ==
  LET acc == VDiv(self.force, self.mass)
      alpha == Div(self.torque, self.inertia)
  IN  [self EXCEPT !.vel = VAdd(self.vel, VScale(dt, acc)),
                   !.pos = VAdd(self.pos, VScale(dt, self.vel)),
                   !.force = VecZero,
                   !.omega = Add(self.omega, Mul(alpha, dt)),
                   !.angle = Add(self.angle, Mul(self.omega, dt)),
                   !.torque = I(0)]

BodyStep(self, dt) ==
  LET acc == VDiv(self.force, self.mass)
      vel == VAdd(self.vel, VScale(dt, acc))
      pos == VAdd(self.pos, VScale(dt, vel))
      alpha == Div(self.torque, self.inertia)
      omega == Add(self.omega, Mul(alpha, dt))
      angle == Add(self.angle, Mul(omega, dt))
  IN  [self EXCEPT !.vel = vel, !.pos = pos, !.force = VecZero,
                   !.omega = omega, !.angle = angle, !.torque = I(0)]

\* The narrow-phase test Body::collide dispatches to.
Narrow(self, geom) ==
  LET c == Circle(self.pos, self.shape.r)
  IN  IF geom.kind = "Circle" THEN circle_circle_collision(c, geom.circle)
      ELSE circle_line_collision(c, geom.line)

\* The reflection without its factor 2: the normal component is removed,
\* not mirrored.
ReflectInelastic(vel, normal) ==
  VSub(vel, VScale(Dot(vel, normal), normal))

\* vel -= 2 * vel.dot(normal) * normal
Reflect(vel, normal) ==
  VSub(vel, VScale(Mul(I(2), Dot(vel, normal)), normal))

\* Body::collide with the position correction of the disabled line 108,
\* self.pos += depth * n, applied to contacts with lines.
BodyCollideCorrecting(self, geom) ==
  LET res == Narrow(self, geom)
  IN  IF res.tag = "Penetration"
        THEN [self EXCEPT !.vel = Reflect(self.vel, res.normal),
                          !.pos = IF geom.kind = "Line"
                                    THEN VAdd(self.pos, VScale(res.depth, res.normal))
                                    ELSE self.pos]
      ELSE self

\* match res { Penetration { normal, .. } => reflect, _ => {} }
BodyCollide(self, geom) ==
  LET Match(res) ==
        IF res.tag = "Penetration"
          THEN [self EXCEPT !.vel = Reflect(self.vel, res.normal)]
        ELSE self
  IN  Match(Narrow(self, geom))

(***************************************************************************)
(* State                                                                   *)
(***************************************************************************)
\* set_gravity assigning the force instead of adding to it.
StateSetGravityAssign(bs, f) ==
  [i \in DOMAIN bs |-> [bs[i] EXCEPT !.force = f]]

StateSetGravity(bs, f) ==
  [i \in DOMAIN bs |-> [bs[i] EXCEPT !.force = VAdd(bs[i].force, f)]]

\* The inner loop visiting the geometry list from its end.
RECURSIVE CollideFromReversed(_, _, _)
CollideFromReversed(b, geom, k) ==
  IF k > Len(geom) THEN b
  ELSE BodyCollide(CollideFromReversed(b, geom, k + 1), geom[k])

\* for g in &self.geometry { b.collide(g) }, from entry k on
RECURSIVE CollideFrom(_, _, _)
CollideFrom(b, geom, k) ==
  IF k > Len(geom) THEN b
  ELSE CollideFrom(BodyCollide(b, geom[k]), geom, k + 1)

StateCollide(bs, geom) ==
  [i \in DOMAIN bs |-> CollideFrom(bs[i], geom, 1)]

\* State::step with the collision pass run before the integration.
StateStepCollideFirst(bs, geom, dt) ==
  LET hit == StateCollide(bs, geom)
  IN  [i \in DOMAIN bs |-> BodyStep(hit[i], dt)]

StateStep(bs, geom, dt) ==
  StateCollide([i \in DOMAIN bs |-> BodyStep(bs[i], dt)], geom)

(***************************************************************************)
(* The scene: State { geometry, bodies } and the calls made on it.         *)
(*   op       the last call made on the scene                              *)
(*   dt       the argument of the last State::step                         *)
(*   calls    the number of calls made so far                              *)
(*   applied  per body, the sum of the vectors set_gravity has added since *)
(*            the body's last step (history, read by no operation)         *)
(*   call, ret  the arguments and the result of the last call of a         *)
(*            function on drawn inputs (specification SpecFn)              *)
(***************************************************************************)
VARIABLES bodies, geometry, op, dt, calls, applied, call, ret

vars ==
  << bodies, geometry, op, dt, calls, applied, call, ret >>

V(x, y) ==
  Vec2(I(x), I(y))

\* Bounds of the scene specification.
MaxCalls ==
  5

\* A scene of the shape of main()'s (the floor, the wall x = 0 and a disc)
\* at a hundredth of its size, so that a few ticks reach the geometry: the
\* floor is y = 6 and the disc has radius 1.
SmallGeometry ==
  << GeomLine(Line(I(0), I(-1), I(6))),
     GeomLine(Line(I(1), I(0), I(0))),
     GeomCircle(Circle(V(4, 4), I(1))) >>

SmallBody(mass, pos) ==
  BodyNew(I(mass), I(10), Circle(VecZero, I(1)), pos, I(1))

\* The scenes a run starts from: one body or two, built by Body::new.
Scenes ==
  { << SmallBody(m, p) >> : m \in {1, 2}, p \in {V(2, 4), V(3, 2), V(6, 3)} }
    \cup { << SmallBody(1, V(1, 3)), SmallBody(2, Vec2(I(8), R(11, 2))) >> }

\* The vectors passed to set_gravity and the frame times passed to step.
Forces ==
  { V(0, 2), V(2, 2) }

FrameTimes ==
  { I(1), I(2) }

NoCall ==
  [fn |-> "none"]

Init ==
  /\ bodies \in Scenes
  /\ geometry = SmallGeometry
  /\ op = "new"
  /\ dt = I(0)
  /\ calls = 0
  /\ applied = [i \in DOMAIN bodies |-> VecZero]
  /\ call = NoCall
  /\ ret = NoCall

SetGravity(f) ==
  /\ bodies' = StateSetGravity(bodies, f)
  /\ applied' = [i \in DOMAIN applied |-> VAdd(applied[i], f)]
  /\ op' = "set_gravity"
  /\ calls' = calls + 1
  /\ UNCHANGED << geometry, dt, call, ret >>

Collide ==
  /\ bodies' = StateCollide(bodies, geometry)
  /\ op' = "collide"
  /\ calls' = calls + 1
  /\ UNCHANGED << geometry, dt, applied, call, ret >>

Step(d) ==
  /\ bodies' = StateStep(bodies, geometry, d)
  /\ applied' = [i \in DOMAIN applied |-> VecZero]
  /\ op' = "step"
  /\ dt' = d
  /\ calls' = calls + 1
  /\ UNCHANGED << geometry, call, ret >>

\* The calls a host can make on the scene, in any order.
HostSetGravity ==
  /\ calls < MaxCalls
  /\ \E f \in Forces : SetGravity(f)

HostStep ==
  /\ calls < MaxCalls
  /\ \E d \in FrameTimes : Step(d)

HostCollide ==
  /\ calls < MaxCalls
  /\ Collide

Next ==
  \/ HostSetGravity
  \/ HostStep
  \/ HostCollide

Spec ==
  Init /\ [][Next]_vars

(***************************************************************************)
(* main(): the body of radius 20 and mass 1 at rest at (500, 200), and the *)
(* loop  dt = get_frame_time(); set_gravity((0, 200)); step(dt).           *)
(***************************************************************************)
MainBody ==
  BodyNew(I(1), I(1000), Circle(VecZero, I(20)), V(500, 200), I(1))

MainGravity ==
  V(0, 200)

MainGeometry ==
  << GeomLine(Line(I(0), I(-1), I(500))),
     GeomLine(Line(I(1), I(0), I(0))),
     GeomCircle(Circle(V(600, 400), I(150))) >>

\* The drop scene: main()'s body over the floor y = 500 alone.
DropGeometry ==
  << GeomLine(Line(I(0), I(-1), I(500))) >>

\* Frames a drop run takes, and the steady frame times it may run at.
MaxTicks ==
  105

DropFrameTimes ==
  { R(1, 60), R(1, 30) }

InitDrop ==
  /\ bodies = << MainBody >>
  /\ geometry = DropGeometry
  /\ op = "new"
  /\ dt \in DropFrameTimes
  /\ calls = 0
  /\ applied = << VecZero >>
  /\ call = NoCall
  /\ ret = NoCall

MainSetGravity ==
  /\ calls < 2 * MaxTicks
  /\ op # "set_gravity"
  /\ SetGravity(MainGravity)

MainStep ==
  /\ calls < 2 * MaxTicks
  /\ op = "set_gravity"
  /\ Step(dt)

NextDrop ==
  \/ MainSetGravity
  \/ MainStep

SpecDrop ==
  InitDrop /\ [][NextDrop]_vars

(***************************************************************************)
(* The functions on drawn inputs: call holds the function and its          *)
(* arguments, ret its result.                                              *)
(***************************************************************************)
MaxCoord ==
  3

MaxCoef ==
  2

Coords ==
  (-MaxCoord) .. MaxCoord

Points ==
  { V(x, y) : x \in Coords, y \in Coords }

\* Radii of the queried circle and of the obstacle circle.
Radii ==
  { I(1), I(2), R(1, 2) }

ObstacleCircles ==
  { Circle(p, r) : p \in { V(0, 0), V(1, -1) }, r \in { I(1), I(2), I(3) } }

\* Valid lines: a and b not both zero.
Lines ==
  { Line(I(a), I(b), I(c)) :
      a \in (-MaxCoef) .. MaxCoef, b \in (-MaxCoef) .. MaxCoef,
      c \in (-MaxCoef) .. MaxCoef } \ { Line(I(0), I(0), I(c)) : c \in (-MaxCoef) .. MaxCoef }

BodyWith(mass, inertia, r, pos, vel, force, angle, omega, torque) ==
  [BodyNew(mass, inertia, Circle(VecZero, r), pos, angle)
     EXCEPT !.vel = vel, !.force = force, !.omega = omega, !.torque = torque]

\* main()'s body after set_gravity((0, 200)).
MainBodyPushed ==
  StateSetGravity(<< MainBody >>, MainGravity)[1]

StepBodies ==
  { BodyWith(m, i, I(1), p, v, f, I(1), w, q) :
      m \in { I(1), I(2) }, i \in { I(4), I(1000) },
      p \in { V(0, 0), V(5, -2) }, v \in { V(0, 0), V(3, -1) },
      f \in { V(0, 0), V(1, 2), V(0, 200) },
      w \in { I(0), I(2) }, q \in { I(0), I(3) } }
    \cup { MainBody, MainBodyPushed }

StepTimes ==
  { R(1, 60), R(1, 2), I(1), I(2) }

CollideBodies ==
  { BodyWith(I(1), I(10), r, p, v, V(0, 1), I(1), I(0), I(0)) :
      r \in { I(1), I(2) }, p \in Points,
      v \in { V(0, 0), V(1, 0), V(0, 1), V(1, 1), V(2, -1) } }

CollideGeometry ==
  { GeomCircle(Circle(V(0, 0), I(1))), GeomCircle(Circle(V(1, 1), I(2))),
    GeomLine(Line(I(0), I(-1), I(2))), GeomLine(Line(I(1), I(0), I(0))),
    GeomLine(Line(I(3), I(4), I(-5))), GeomLine(Line(I(1), I(1), I(0))) }

CircleCircleCalls ==
  { [fn |-> "circle_circle_collision", c1 |-> Circle(p, r), c2 |-> c2] :
      p \in Points, r \in Radii, c2 \in ObstacleCircles }

CircleLineCalls ==
  { [fn |-> "circle_line_collision", c |-> Circle(p, r), l |-> l] :
      p \in Points, r \in Radii, l \in Lines }

BodyStepCalls ==
  { [fn |-> "Body::step", self |-> b, dt |-> d] : b \in StepBodies, d \in StepTimes }

BodyCollideCalls ==
  { [fn |-> "Body::collide", self |-> b, geom |-> g] :
      b \in CollideBodies, g \in CollideGeometry }

InitFn ==
  /\ bodies = << >>
  /\ geometry = << >>
  /\ op = "new"
  /\ dt = I(0)
  /\ calls = 0
  /\ applied = << >>
  /\ call \in CircleCircleCalls \cup CircleLineCalls \cup BodyStepCalls \cup BodyCollideCalls
  /\ ret = NoCall

CallCircleCircle ==
  /\ call.fn = "circle_circle_collision"
  /\ ret = NoCall
  /\ ret' = circle_circle_collision(call.c1, call.c2)
  /\ UNCHANGED << bodies, geometry, op, dt, calls, applied, call >>

CallCircleLine ==
  /\ call.fn = "circle_line_collision"
  /\ ret = NoCall
  /\ ret' = circle_line_collision(call.c, call.l)
  /\ UNCHANGED << bodies, geometry, op, dt, calls, applied, call >>

CallBodyStep ==
  /\ call.fn = "Body::step"
  /\ ret = NoCall
  /\ ret' = BodyStep(call.self, call.dt)
  /\ UNCHANGED << bodies, geometry, op, dt, calls, applied, call >>

CallBodyCollide ==
  /\ call.fn = "Body::collide"
  /\ ret = NoCall
  /\ ret' = BodyCollide(call.self, call.geom)
  /\ UNCHANGED << bodies, geometry, op, dt, calls, applied, call >>

NextFn ==
  \/ CallCircleCircle
  \/ CallCircleLine
  \/ CallBodyStep
  \/ CallBodyCollide

SpecFn ==
  InitFn /\ [][NextFn]_vars

(***************************************************************************)
(* Properties                                                              *)
(***************************************************************************)
\* Equality of two values, neither NaN.
Eq(x, y) ==
  ~x.nan /\ ~y.nan /\ Sign(Sub(x, y)) = 0

Sq(x) ==
  Mul(x, x)

\* n is a unit vector along diff: |n| = 1, n parallel to diff, same sense.
UnitAlong(n, diff) ==
  /\ Eq(Dot(n, n), I(1))
  /\ Eq(Mul(n.x, diff.y), Mul(n.y, diff.x))
  /\ Gt(Dot(n, diff), I(0))

Returned(fn) ==
  call.fn = fn /\ ret # NoCall

\* C1: circle_circle_collision(c1, c2), with dist = |c1.pos - c2.pos|, is
\* NoCollision when dist > r1 + r2; Penetration with depth = r1 + r2 - dist
\* and the unit normal along c1.pos - c2.pos when r2 < dist < r1 + r2;
\* FullOverlap when dist <= r2.  (dist is compared through its square.)
C1_CircleCircleCases ==
  Returned("circle_circle_collision") =>
    LET diff == VSub(call.c1.pos, call.c2.pos)
        dist2 == Dot(diff, diff)
        sum == Add(call.c1.r, call.c2.r)
    IN  /\ Gt(dist2, Sq(sum)) => ret = NoCollision
        /\ (Gt(dist2, Sq(call.c2.r)) /\ Lt(dist2, Sq(sum))) =>
             /\ ret.tag = "Penetration"
             /\ Le(ret.depth, sum)
             /\ Eq(Sq(Sub(sum, ret.depth)), dist2)
             /\ UnitAlong(ret.normal, diff)
        /\ Le(dist2, Sq(call.c2.r)) => ret = FullOverlap

\* C1's case: a penetration at an irrational distance, and each other branch.
C1_Witness ==
  /\ Returned("circle_circle_collision")
  /\ ret.tag = "Penetration"
  /\ ~IsRat(ret.depth)
  /\ Gt(ret.depth, I(0))

\* C3: circle_line_collision(c, l), with t = (a cx + b cy + c)/(a^2 + b^2)
\* and dist = |(a t, b t)|, is NoCollision when dist > r and t > 0;
\* FullOverlap when dist > r and t <= 0; Penetration when dist <= r, with
\* depth = r - dist for t > 0, r + dist for t < 0, and depth >= 0 always.
C3_CircleLineCases ==
  Returned("circle_line_collision") =>
    LET l == call.l
        r == call.c.r
        num == Add(Add(Mul(l.a, call.c.pos.x), Mul(l.b, call.c.pos.y)), l.c)
        n2 == Add(Sq(l.a), Sq(l.b))
        dist2 == Div(Sq(num), n2)
        tpos == Gt(num, I(0))
    IN  /\ (Gt(dist2, Sq(r)) /\ tpos) => ret = NoCollision
        /\ (Gt(dist2, Sq(r)) /\ ~tpos) => ret = FullOverlap
        /\ Le(dist2, Sq(r)) =>
             /\ ret.tag = "Penetration"
             /\ Le(I(0), ret.depth)
             /\ Eq(Sq(Sub(r, ret.depth)), dist2)
             /\ tpos => Le(ret.depth, r)
             /\ Lt(num, I(0)) => Gt(ret.depth, r)

\* C3's case: a penetration from the solid side, where the depth exceeds r.
C3_Witness ==
  /\ Returned("circle_line_collision")
  /\ ret.tag = "Penetration"
  /\ Gt(ret.depth, call.c.r)
  /\ ~IsRat(ret.depth)

\* C8 (as claimed): every Penetration a narrow-phase test returns carries a
\* well-defined unit normal, the circle centred on the line included.
C8_PenetrationNormalIsUnit ==
  (/\ call.fn \in { "circle_circle_collision", "circle_line_collision" }
   /\ ret # NoCall
   /\ ret.tag = "Penetration")
    => Eq(Dot(ret.normal, ret.normal), I(1))

\* The call is Body::collide of a body whose disc touches the obstacle
\* circle from outside: dist = r1 + r2 exactly.
TangentCollide ==
  /\ Returned("Body::collide")
  /\ call.geom.kind = "Circle"
  /\ LET diff == VSub(call.self.pos, call.geom.circle.pos)
     IN  Eq(Dot(diff, diff), Sq(Add(call.self.shape.r, call.geom.circle.r)))

TangentCircles ==
  /\ Returned("circle_circle_collision")
  /\ LET diff == VSub(call.c1.pos, call.c2.pos)
     IN  Eq(Dot(diff, diff), Sq(Add(call.c1.r, call.c2.r)))

\* C2 (as claimed): circles at dist = r1 + r2 exactly are classified
\* NoCollision, and Body::collide leaves the velocity unchanged.
C2_TangentIsNoCollision ==
  /\ TangentCircles => ret = NoCollision
  /\ TangentCollide => ret.vel = call.self.vel

\* C2 (amended): circles at dist = r1 + r2 exactly are classified
\* Penetration, with depth 0 and the normal n = (c1.pos - c2.pos)/(r1 + r2),
\* and Body::collide reflects the velocity: vel' = vel - 2 (vel.n) n.
C2_TangentIsPenetration ==
  /\ TangentCircles =>
       /\ ret.tag = "Penetration"
       /\ Eq(ret.depth, I(0))
       /\ ret.normal = VDiv(VSub(call.c1.pos, call.c2.pos), Add(call.c1.r, call.c2.r))
  /\ TangentCollide =>
       LET n == VDiv(VSub(call.self.pos, call.geom.circle.pos),
                     Add(call.self.shape.r, call.geom.circle.r))
           v == call.self.vel
       IN  ret = [call.self EXCEPT
                    !.vel = VSub(v, VScale(Mul(I(2), Dot(v, n)), n))]

\* C2's case: a body touching a circle has its velocity changed by collide.
C2_Witness ==
  /\ TangentCollide
  /\ ret.vel # call.self.vel

\* C4: when Body::collide gets a Penetration with a unit normal n, the new
\* velocity v' has v'.n = -(v.n), the same tangential component
\* v' - (v'.n) n = v - (v.n) n, and the same squared length.
C4_ReflectionLaw ==
  Returned("Body::collide") =>
    LET res == Narrow(call.self, call.geom)
        v == call.self.vel
        w == ret.vel
    IN  (res.tag = "Penetration" /\ Eq(Dot(res.normal, res.normal), I(1))) =>
          LET n == res.normal
              tv == VSub(v, VScale(Dot(v, n), n))
              tw == VSub(w, VScale(Dot(w, n), n))
          IN  /\ Eq(Dot(w, n), Neg(Dot(v, n)))
              /\ Eq(tw.x, tv.x)
              /\ Eq(tw.y, tv.y)
              /\ Eq(Dot(w, w), Dot(v, v))

\* C4's case: a reflection about an irrational unit normal, neither along
\* nor across the velocity.
C4_Witness ==
  /\ Returned("Body::collide")
  /\ LET res == Narrow(call.self, call.geom)
     IN  /\ res.tag = "Penetration"
         /\ ~res.normal.x.nan
         /\ ~IsRat(res.normal.x)
         /\ ret.vel # call.self.vel
         /\ ret.vel # VSub(VecZero, call.self.vel)

\* C5: Body::step(dt) is semi-implicit Euler: vel' = vel + (force/mass) dt,
\* pos' = pos + vel' dt, omega' = omega + (torque/inertia) dt and
\* angle' = angle + omega' dt.  main()'s body at rest at (500, 200) after
\* set_gravity((0, 200)) and one step(1/60), main()'s geometry being out of
\* range, has vel = (0, 200/60) and pos = (500, 200 + 200/3600).
C5_SemiImplicitEuler ==
  Returned("Body::step") =>
    LET b == call.self
        d == call.dt
        vel1 == VAdd(b.vel, VScale(d, VDiv(b.force, b.mass)))
        omega1 == Add(b.omega, Mul(Div(b.torque, b.inertia), d))
    IN  /\ ret.vel = vel1
        /\ ret.pos = VAdd(b.pos, VScale(d, vel1))
        /\ ret.omega = omega1
        /\ ret.angle = Add(b.angle, Mul(omega1, d))
        /\ (b = MainBodyPushed /\ d = R(1, 60)) =>
             /\ b.force = V(0, 200) /\ b.vel = VecZero /\ b.pos = V(500, 200)
             /\ ret.vel = Vec2(I(0), R(200, 60))
             /\ ret.pos = Vec2(I(500), Add(I(200), R(200, 3600)))
             /\ StateStep(<< b >>, MainGeometry, d) = << ret >>

\* C5's case: a step of a moving, spinning body under force and torque.
C5_Witness ==
  /\ Returned("Body::step")
  /\ call.self.vel # VecZero
  /\ call.self.force # VecZero
  /\ call.self.torque # I(0)
  /\ ret.pos # call.self.pos
  /\ ret.angle # call.self.angle

\* C6: every body's force accumulator is the sum of the vectors passed to
\* set_gravity since its last step, its torque accumulator the sum of the
\* torques applied (nothing applies one), and both are zero right after
\* State::step; set_gravity and collide never zero them.
C6_Accumulators ==
  \A i \in DOMAIN bodies :
    /\ bodies[i].force = applied[i]
    /\ bodies[i].torque = I(0)
    /\ op = "step" => (bodies[i].force = VecZero /\ bodies[i].torque = I(0))

\* C6's case: two different vectors accumulated after an earlier step.
C6_Witness ==
  /\ op = "set_gravity"
  /\ \E i \in DOMAIN bodies :
       /\ bodies[i].force = V(2, 4)
       /\ bodies[i].vel # VecZero

\* The geometry entries body b penetrates where it stands.
Penetrated(b) ==
  { k \in DOMAIN geometry : Narrow(b, geometry[k]).tag = "Penetration" }

\* C9: State::collide changes nothing but the bodies' vel, and the vel of
\* a body only when one of its narrow-phase results is Penetration: pos,
\* angle, omega, force, torque, mass, inertia, shape and the geometry list
\* stay as they are.
C9_CollideFrame ==
  [][op' = "collide" =>
       /\ geometry' = geometry
       /\ DOMAIN bodies' = DOMAIN bodies
       /\ \A i \in DOMAIN bodies :
            /\ bodies'[i] = [bodies[i] EXCEPT !.vel = bodies'[i].vel]
            /\ Penetrated(bodies[i]) = {} => bodies'[i] = bodies[i]]_vars

\* C9's case: a collide that reflected one body and left another, which
\* penetrates nothing, as it was.
C9_Witness ==
  /\ op = "collide"
  /\ \E i \in DOMAIN bodies :
       /\ Penetrated(bodies[i]) # {}
       /\ bodies[i].vel # VecZero
       /\ ~bodies[i].vel.x.nan
  /\ \E i \in DOMAIN bodies : Penetrated(bodies[i]) = {}

\* C10: State::step(dt) integrates a body before it tests it, and tests it
\* against the geometry in list order: with v1 the integrated velocity and
\* the normals taken at the integrated position, a body that penetrates
\* nothing ends with v1, one that penetrates entry j with v1 reflected about
\* n_j, and one that penetrates entries j < k with v1 reflected about n_j
\* and the result reflected about n_k.
C10_StepOrder ==
  [][op' = "step" =>
       \A i \in DOMAIN bodies :
         LET b == bodies[i]
             v1 == VAdd(b.vel, VScale(dt', VDiv(b.force, b.mass)))
             p1 == VAdd(b.pos, VScale(dt', v1))
             moved == [b EXCEPT !.pos = p1]
             hit == Penetrated(moved)
             n(k) == Narrow(moved, geometry[k]).normal
             refl(v, m) == VSub(v, VScale(Mul(I(2), Dot(v, m)), m))
         IN  /\ bodies'[i].pos = p1
             /\ hit = {} => bodies'[i].vel = v1
             /\ \A j \in hit : hit = {j} => bodies'[i].vel = refl(v1, n(j))
             /\ \A j, k \in hit : (j < k /\ hit = {j, k}) =>
                  bodies'[i].vel = refl(refl(v1, n(j)), n(k))]_vars

\* C10's case: after a step a moving body penetrates two entries whose
\* normals are neither parallel nor perpendicular, so the order of the two
\* reflections shows in the velocity.
C10_Witness ==
  /\ op = "step"
  /\ \E i \in DOMAIN bodies : \E j, k \in Penetrated(bodies[i]) :
       LET nj == Narrow(bodies[i], geometry[j]).normal
           nk == Narrow(bodies[i], geometry[k]).normal
       IN  /\ j < k
           /\ Penetrated(bodies[i]) = {j, k}
           /\ ~nj.x.nan /\ ~nk.x.nan
           /\ ~Eq(Dot(nj, nk), I(0))
           /\ ~Eq(Sq(Dot(nj, nk)), I(1))
           /\ Reflect(Reflect(bodies[i].vel, nj), nk) # Reflect(Reflect(bodies[i].vel, nk), nj)

====
